---- MODULE Spec2Model ----
(***************************************************************************)
(* blink_controller<output_pin_t>: the on/off duty-cycle timing controller *)
(* of projects/examples/blink_led, together with the output pin it drives. *)
(* The counter type uint32_t is modelled as a Width-bit unsigned integer;  *)
(* every arithmetic result is reduced modulo 2^Width as the hardware does. *)
(***************************************************************************)
EXTENDS Integers, Sequences, FiniteSets, TLC

\* ------------------------------------------------------------------ bounds
\* Width of the unsigned counter type (uint32_t in the source, narrowed so
\* that the values can be enumerated).
Width == 8

\* Number of update()/reset() calls followed from construction.
MaxCalls == 4

\* Number of full on+off cycles a scripted caller samples.
MaxCycles == 2

\* ------------------------------------------------------- counter arithmetic
Modulus == 2 ^ Width

\* UINT32_MAX: the largest value of the counter type.
UINT32_MAX == Modulus - 1

\* Conversion of an integer expression to the counter type (wraps).
ToCounter(n) == n % Modulus

\* on_duration_ms / off_duration_ms values the constructor is called with.
Durations == {0, 1, 100, UINT32_MAX}

\* current_time_ms values update() is called with.
Times == {0, 1, 2, 70, 99, 100, 199, 200,
          UINT32_MAX - 150, UINT32_MAX - 40, UINT32_MAX - 1, UINT32_MAX}

VARIABLES
    on_duration_ms_,        \* blink_controller::on_duration_ms_
    off_duration_ms_,       \* blink_controller::off_duration_ms_
    last_toggle_time_ms_,   \* blink_controller::last_toggle_time_ms_
    led_on_,                \* blink_controller::led_on_
    state_,                 \* the output pin's state_ (last value given to set)
    sink_log,               \* arguments of every output_.set call since construction
    call_log,               \* names of the update/reset calls since construction
    op,                     \* the member function that ran last
    arg,                    \* current_time_ms of the last update call
    elapsed,                \* the local `elapsed` of the last update call
    retval,                 \* <<v>> when the last call returned v, <<>> for void
    ctor_args,              \* <<on_duration_ms, off_duration_ms>> given to the constructor
    \* The caller's side.  Each is used by the specifications that name it and
    \* keeps its initial value in the others.
    time_log,               \* current_time_ms of every update call since construction
    script,                 \* the sample times a scripted caller has still to pass
    clock,                  \* the caller's time source
    step,                   \* the caller's sampling interval
    ideal_last,             \* reference controller on unwrapped time: time of its last toggle
    ideal_on,               \* reference controller on unwrapped time: its phase
    ideal_ok                \* no sample yet came 2^Width or more after the reference's last toggle

\* The controller, its pin and the record of the last call.
ctrl == <<on_duration_ms_, off_duration_ms_, last_toggle_time_ms_, led_on_,
          state_, op, arg, elapsed, retval, ctor_args>>

\* The record of the calls made since construction.
logs == <<sink_log, call_log>>

\* The caller's side.
caller == <<time_log, script, clock, step, ideal_last, ideal_on, ideal_ok>>

vars == <<on_duration_ms_, off_duration_ms_, last_toggle_time_ms_, led_on_,
          state_, sink_log, call_log, op, arg, elapsed, retval, ctor_args,
          time_log, script, clock, step, ideal_last, ideal_on, ideal_ok>>

Last(s) == s[Len(s)]

\* ------------------------------------------------------------ output pin
\* output_pin_t::set(bool): the state the pin holds after set(state).
set(state) == state

\* --------------------------------------------------------- blink_controller
\* Variant: the two durations stored in each other's member.
blink_controller_swapped(on_duration_ms, off_duration_ms) ==
    /\ on_duration_ms_ = off_duration_ms
    /\ off_duration_ms_ = on_duration_ms
    /\ last_toggle_time_ms_ = 0
    /\ led_on_ = FALSE

\* Constructor: member initialiser list; the pin is bound, not called.
blink_controller(on_duration_ms, off_duration_ms) ==
    /\ on_duration_ms_ = on_duration_ms
    /\ off_duration_ms_ = off_duration_ms
    /\ last_toggle_time_ms_ = 0
    /\ led_on_ = FALSE

\* Variant: the wraparound expression written with current_time_ms first,
\* current_time_ms + UINT32_MAX - last_toggle_time_ms_ + 1.
WrapSteps_current_first(current_time_ms, last_toggle) ==
    LET sum == current_time_ms + UINT32_MAX
        difference == ToCounter(sum) - last_toggle
    IN  <<sum, difference, ToCounter(difference) + 1>>

\* The wraparound expression (UINT32_MAX - last_toggle_time_ms_) +
\* current_time_ms + 1, operation by operation: the exact value of each
\* operation on the uint32_t value of the one before, before it is reduced
\* to the type.
WrapSteps(current_time_ms, last_toggle) ==
    LET difference == UINT32_MAX - last_toggle
        sum == ToCounter(difference) + current_time_ms
    IN  <<difference, sum, ToCounter(sum) + 1>>

\* Variant: the wraparound branch without the final + 1.
Elapsed_no_plus_one(current_time_ms, last_toggle) ==
    IF current_time_ms >= last_toggle
    THEN ToCounter(current_time_ms - last_toggle)
    ELSE ToCounter(ToCounter(UINT32_MAX - last_toggle) + current_time_ms)

\* Variant: the plain difference, without the wraparound branch and without
\* the wrap of the unsigned type.
Elapsed_signed(current_time_ms, last_toggle) == current_time_ms - last_toggle

\* Variant: a sample below the toggle time is measured by its distance.
Elapsed_distance(current_time_ms, last_toggle) ==
    IF current_time_ms >= last_toggle
    THEN ToCounter(current_time_ms - last_toggle)
    ELSE ToCounter(last_toggle - current_time_ms)

\* The local `elapsed` of update(): time since the last toggle, with the
\* explicit wraparound branch.
Elapsed(current_time_ms, last_toggle) ==
    IF current_time_ms >= last_toggle
    THEN ToCounter(current_time_ms - last_toggle)
    ELSE ToCounter(Last(WrapSteps(current_time_ms, last_toggle)))

\* Variant: the ternary with its branches exchanged.
TargetDuration_swapped(on, on_ms, off_ms) == IF on THEN off_ms ELSE on_ms

\* target_duration: the duration of the phase the controller is in.
TargetDuration(on, on_ms, off_ms) == IF on THEN on_ms ELSE off_ms

\* Variant: strict comparison.
ShouldToggle_strict(e, target_duration) == e > target_duration

\* Variant: the comparison is met one tick early.
ShouldToggle_early(e, target_duration) == e + 1 >= target_duration

\* The toggle condition of update().
ShouldToggle(e, target_duration) == e >= target_duration

\* Variant: the toggle time is not recorded.
NewToggleTime_stale(toggle, current_time_ms, last_toggle) == last_toggle

\* Variant: the toggle time is the scheduled end of the phase, not the sample.
NewToggleTime_scheduled(toggle, current_time_ms, last_toggle) ==
    IF toggle
    THEN ToCounter(last_toggle + (IF led_on_ THEN on_duration_ms_ ELSE off_duration_ms_))
    ELSE last_toggle

\* Variant: the toggle time is assigned outside the toggle branch.
NewToggleTime_every_call(toggle, current_time_ms, last_toggle) == current_time_ms

\* last_toggle_time_ms_ after update(): assigned only inside the toggle branch.
NewToggleTime(toggle, current_time_ms, last_toggle) ==
    IF toggle THEN current_time_ms ELSE last_toggle

\* The phase a controller that replays every elapsed period would end in
\* (not what update() does; used to tell the two policies apart).
RECURSIVE CatchUp(_, _, _, _)
CatchUp(on, e, on_ms, off_ms) ==
    IF on_ms + off_ms = 0 THEN ~on
    ELSE IF e >= on_ms + off_ms THEN CatchUp(on, e % (on_ms + off_ms), on_ms, off_ms)
    ELSE IF e >= TargetDuration(on, on_ms, off_ms)
         THEN CatchUp(~on, e - TargetDuration(on, on_ms, off_ms), on_ms, off_ms)
         ELSE on

\* Variant: the phase after update() is the multi-cycle catch-up phase.
NewPhase_catch_up(on, toggle, e, on_ms, off_ms) == CatchUp(on, e, on_ms, off_ms)

\* Variant: the phase is read back from the pin instead of led_on_.
NewPhase_from_pin(on, toggle, e, on_ms, off_ms) == IF toggle THEN ~state_ ELSE state_

\* led_on_ after update(): negated once inside the toggle branch.
NewPhase(on, toggle, e, on_ms, off_ms) == IF toggle THEN ~on ELSE on

\* Variant: the pin is written only when the phase changed.
OutputCalls_on_toggle_only(toggle, new_led_on) ==
    IF toggle THEN <<new_led_on>> ELSE <<>>

\* The output_.set calls update() makes, in order: one, after the toggle branch.
OutputCalls(toggle, new_led_on) == <<new_led_on>>

\* Carrying out a sequence of output_.set calls on the pin; the calls are
\* added to the record when keep is true.
Drive(calls, keep) ==
    /\ state_' = IF calls = <<>> THEN state_ ELSE set(Last(calls))
    /\ sink_log' = IF keep THEN sink_log \o calls ELSE sink_log

\* The body of update(); keep says whether the call is added to the record
\* of calls (a caller that runs forever keeps no record).
update_body(current_time_ms, keep) ==
    /\ LET e == Elapsed(current_time_ms, last_toggle_time_ms_)
           target_duration == TargetDuration(led_on_, on_duration_ms_, off_duration_ms_)
           toggle == ShouldToggle(e, target_duration)
           new_led_on == NewPhase(led_on_, toggle, e, on_duration_ms_, off_duration_ms_)
       IN  /\ elapsed' = e
           /\ led_on_' = new_led_on
           /\ last_toggle_time_ms_' =
                  NewToggleTime(toggle, current_time_ms, last_toggle_time_ms_)
           /\ Drive(OutputCalls(toggle, new_led_on), keep)
    /\ call_log' = IF keep THEN Append(call_log, "update") ELSE call_log
    /\ op' = "update"
    /\ arg' = current_time_ms
    /\ retval' = <<>>
    /\ UNCHANGED <<on_duration_ms_, off_duration_ms_, ctor_args>>

\* void update(uint32_t current_time_ms)
update(current_time_ms) == update_body(current_time_ms, TRUE)

\* Variant: reset() without the write to the pin.
ResetOutputCalls_none == <<>>

\* Variant: reset() writes the pin only when it turns an active phase off.
ResetOutputCalls_if_on == IF led_on_ THEN <<FALSE>> ELSE <<>>

\* The output_.set calls reset() makes.
ResetOutputCalls == <<FALSE>>

\* Variant: reset() leaves the toggle time alone.
ResetToggleTime_kept(last_toggle) == last_toggle

\* last_toggle_time_ms_ after reset().
ResetToggleTime(last_toggle) == 0

\* Variant: reset() leaves the phase alone.
ResetPhase_kept(on) == on

\* led_on_ after reset().
ResetPhase(on) == FALSE

\* void reset()
reset ==
    /\ last_toggle_time_ms_' = ResetToggleTime(last_toggle_time_ms_)
    /\ led_on_' = ResetPhase(led_on_)
    /\ Drive(ResetOutputCalls, TRUE)
    /\ call_log' = Append(call_log, "reset")
    /\ op' = "reset"
    /\ retval' = <<>>
    /\ UNCHANGED <<on_duration_ms_, off_duration_ms_, ctor_args, arg, elapsed>>

\* A const getter returning v: nothing but the return value is produced.
Getter(name, v) ==
    /\ op' = name
    /\ retval' = <<v>>
    /\ UNCHANGED <<on_duration_ms_, off_duration_ms_, last_toggle_time_ms_, led_on_,
                   state_, sink_log, call_log, arg, elapsed, ctor_args>>

get_on_duration == Getter("get_on_duration", on_duration_ms_)

\* Variant: the getter returns the other duration member.
get_off_duration_returning_on == Getter("get_off_duration", on_duration_ms_)

get_off_duration == Getter("get_off_duration", off_duration_ms_)

\* Variant: a getter that writes the phase to the pin before returning it.
is_on_refreshing_pin ==
    /\ op' = "is_on"
    /\ retval' = <<led_on_>>
    /\ state_' = set(led_on_)
    /\ sink_log' = Append(sink_log, led_on_)
    /\ UNCHANGED <<on_duration_ms_, off_duration_ms_, last_toggle_time_ms_, led_on_,
                   call_log, arg, elapsed, ctor_args>>

is_on == Getter("is_on", led_on_)

get_last_toggle_time == Getter("get_last_toggle_time", last_toggle_time_ms_)

\* ------------------------------------------------------------ specification
\* The state right after construction.  The pin is owned by the caller and is
\* not touched by the constructor, so its state is whatever the caller left.
Constructed ==
    /\ \E on_duration_ms \in Durations, off_duration_ms \in Durations :
          /\ blink_controller(on_duration_ms, off_duration_ms)
          /\ ctor_args = <<on_duration_ms, off_duration_ms>>
    /\ state_ \in BOOLEAN
    /\ sink_log = <<>>
    /\ call_log = <<>>
    /\ op = "construct"
    /\ arg = 0
    /\ elapsed = 0
    /\ retval = <<>>
    /\ time_log = <<>>
    /\ ideal_last = 0
    /\ ideal_on = FALSE
    /\ ideal_ok = TRUE

Init ==
    /\ Constructed
    /\ script = <<>>
    /\ clock = 0
    /\ step = 0

\* Any caller: update with any sample time, reset and the getters in any order.
Next ==
    \/ /\ Len(call_log) < MaxCalls
       /\ \E current_time_ms \in Times : update(current_time_ms)
       /\ UNCHANGED caller
    \/ /\ Len(call_log) < MaxCalls
       /\ reset
       /\ UNCHANGED caller
    \/ get_on_duration /\ UNCHANGED caller
    \/ get_off_duration /\ UNCHANGED caller
    \/ is_on /\ UNCHANGED caller
    \/ get_last_toggle_time /\ UNCHANGED caller

Spec == Init /\ [][Next]_vars

\* ------------------------------------------- specification: recorded samples
\* current_time_ms values of the caller whose samples are recorded.
TimesLog == {0, 1, 100, UINT32_MAX}

\* Any caller, as in Next, that also records the sample time of every update.
NextLog ==
    \/ /\ Len(call_log) < MaxCalls
       /\ \E current_time_ms \in TimesLog :
             /\ update(current_time_ms)
             /\ time_log' = Append(time_log, current_time_ms)
       /\ UNCHANGED <<script, clock, step, ideal_last, ideal_on, ideal_ok>>
    \/ /\ Len(call_log) < MaxCalls
       /\ reset
       /\ UNCHANGED caller
    \/ get_on_duration /\ UNCHANGED caller
    \/ get_off_duration /\ UNCHANGED caller
    \/ is_on /\ UNCHANGED caller
    \/ get_last_toggle_time /\ UNCHANGED caller

SpecLog == Init /\ [][NextLog]_vars

\* --------------------------------------------- specification: scripted caller
\* The samples of the transition tests: timer at 0, advanced to one before the
\* end of the off phase, to its end, to one before the end of the on phase and
\* to its end (timer.advance(499), advance(1), advance(999), advance(1)).
BoundarySamples(on_ms, off_ms) ==
    <<0, ToCounter(off_ms - 1), off_ms,
      ToCounter(off_ms + on_ms - 1), ToCounter(off_ms + on_ms)>>

\* The samples of the multiple_cycles test: the timer advanced by the off
\* duration, then the on duration, and so on, with an update after each.
OnTimeSamples(on_ms, off_ms) ==
    [k \in 1..(2 * MaxCycles) |->
        ToCounter(((k + 1) \div 2) * off_ms + (k \div 2) * on_ms)]

InitScript ==
    /\ Constructed
    /\ script \in {BoundarySamples(on_duration_ms_, off_duration_ms_),
                    OnTimeSamples(on_duration_ms_, off_duration_ms_)}
    /\ clock = 0
    /\ step = 0

\* The scripted caller passes its next sample to update.
NextScript ==
    /\ script # <<>>
    /\ update(Head(script))
    /\ time_log' = Append(time_log, Head(script))
    /\ script' = Tail(script)
    /\ UNCHANGED <<clock, step, ideal_last, ideal_on, ideal_ok>>

SpecScript == InitScript /\ [][NextScript]_vars

\* ----------------------------------------------- specification: polling loop
\* UPDATE_INTERVAL_MS of the demo loop.
UPDATE_INTERVAL_MS == 50

\* Sampling intervals of the polling loop: every tick, every other tick, the
\* demo's interval, and the widest intervals that still fit the counter next
\* to a duration of 100 and of 1.
Intervals == {1, 2, UPDATE_INTERVAL_MS, Modulus - 100, UINT32_MAX}

InitLoop ==
    /\ Constructed
    /\ script = <<>>
    /\ clock = 0
    /\ step \in Intervals

\* One round of the loop of main(): update with the timer's value, then sleep
\* for the sampling interval; the timer is a wrapping counter.  The loop runs
\* without end, so it keeps no record of its calls.
Poll ==
    /\ update_body(clock, FALSE)
    /\ clock' = ToCounter(clock + step)
    /\ UNCHANGED <<time_log, script, step, ideal_last, ideal_on, ideal_ok>>

\* The loop never stops polling.
SpecLoop == InitLoop /\ [][Poll]_vars /\ WF_vars(Poll)

\* ------------------------------------ specification: caller with a true clock
\* Amounts of time that go by between two samples; the last two are a full
\* turn of the counter and more.
Advances == {0, 1, 99, 100, Modulus - 100, UINT32_MAX, Modulus, Modulus + 100}

\* The reference controller: the toggle rule applied to time that never wraps.
IdealElapsed(true_time) == true_time - ideal_last

IdealToggle(true_time) ==
    IdealElapsed(true_time) >= (IF ideal_on THEN on_duration_ms_ ELSE off_duration_ms_)

\* Time goes by on a clock that never wraps; the caller passes the clock's
\* value, converted to the counter type, to update, and the reference
\* controller sees the clock itself.
Sample ==
    /\ Len(call_log) < MaxCalls
    /\ \E d \in Advances :
          /\ clock' = clock + d
          /\ update(ToCounter(clock + d))
          /\ ideal_on' = IF IdealToggle(clock + d) THEN ~ideal_on ELSE ideal_on
          /\ ideal_last' = IF IdealToggle(clock + d) THEN clock + d ELSE ideal_last
          /\ ideal_ok' = (ideal_ok /\ IdealElapsed(clock + d) < Modulus)
    /\ UNCHANGED <<time_log, script, step>>

SpecClock == Init /\ [][Sample]_vars

\* --------------------------------- specification: sampling with bounded gaps
\* The largest gap between two samples: every tick, every other tick, and the
\* demo's interval.
SampleGaps == {1, 2, UPDATE_INTERVAL_MS}

\* The timer's value when the caller starts sampling.
StartTimes == {0, 150}

\* The time between two samples of a caller whose gap is at most d: none, one
\* tick, or the whole gap.
Gaps(d) == {0, 1, d}

InitSampled ==
    /\ Constructed
    /\ script = <<>>
    /\ clock \in StartTimes
    /\ step \in SampleGaps

\* A caller that lets at most `step` ticks of the wrapping timer go by, calls
\* update with the timer's value, and notes the sample at which is_on()
\* changed.  It runs without end and keeps no other record.
SampleWithin ==
    \E g \in Gaps(step) :
        /\ clock' = ToCounter(clock + g)
        /\ update_body(ToCounter(clock + g), FALSE)
        /\ time_log' = IF led_on_' # led_on_ THEN <<ToCounter(clock + g)>> ELSE time_log
        /\ UNCHANGED <<script, step, ideal_last, ideal_on, ideal_ok>>

SpecSampled == InitSampled /\ [][SampleWithin]_vars

\* ------------------------------------------------------------------ claims
\* The phase the controller was in before the step, and its duration.
DurationBefore == IF led_on_ THEN on_duration_ms_ ELSE off_duration_ms_

\* C1: with samples that do not run backwards (current_time >= the last toggle
\* time), an update flips the phase if and only if current_time minus the last
\* toggle time is at least the duration of the phase it was in before the call.
C1_FlipIffElapsedReachesDuration ==
    [][(op' = "update" /\ arg' >= last_toggle_time_ms_)
         => ((led_on_' # led_on_) <=> (arg' - last_toggle_time_ms_ >= DurationBefore))]_vars

\* An update that flipped exactly on the boundary of a non-zero off phase.
C1_Witness ==
    /\ op = "update"
    /\ led_on_
    /\ off_duration_ms_ > 0
    /\ elapsed = off_duration_ms_
    /\ last_toggle_time_ms_ = arg

\* C2: an update whose elapsed time covers at least one full on+off period
\* leaves the phase exactly negated (one flip), and the toggle time is the
\* sample time; it does not replay the periods that went by.
C2_SingleFlipPerUpdate ==
    [][(op' = "update" /\ elapsed' >= on_duration_ms_ + off_duration_ms_)
         => (led_on_' = ~led_on_ /\ last_toggle_time_ms_' = arg')]_vars

\* An update after several full periods where replaying the periods would
\* have ended in the other phase.
C2_Witness ==
    /\ op = "update"
    /\ on_duration_ms_ > 0
    /\ off_duration_ms_ > 0
    /\ elapsed >= 2 * (on_duration_ms_ + off_duration_ms_)
    /\ led_on_
    /\ CatchUp(FALSE, elapsed, on_duration_ms_, off_duration_ms_) = FALSE

\* C3: every update makes exactly one output.set call, flip or no flip, and
\* its argument is the phase the controller has after the call.
C3_OneSetPerUpdate ==
    [][op' = "update"
         => (sink_log' = Append(sink_log, led_on_') /\ state_' = led_on_')]_vars

\* An update that did not flip an active phase and still wrote to the pin.
C3_Witness ==
    /\ op = "update"
    /\ led_on_
    /\ elapsed < on_duration_ms_
    /\ Len(sink_log) >= 2
    /\ sink_log[Len(sink_log)] = TRUE
    /\ sink_log[Len(sink_log) - 1] = TRUE

\* C4: once update or reset has been called at least once, the value the pin
\* last received equals the controller's phase.
C4_SinkMatchesPhase ==
    call_log # <<>> => state_ = led_on_

\* An active controller after a reset and later updates.
C4_Witness ==
    /\ Len(call_log) >= 3
    /\ \E i \in 1..Len(call_log) : call_log[i] = "reset"
    /\ Last(call_log) = "update"
    /\ led_on_
    /\ state_

\* C5: the elapsed time update computes is (current_time - last toggle time)
\* modulo 2^w: the plain difference when current_time is not smaller, and
\* (MAX - last) + current_time + 1 otherwise; from MAX - 40 to 70 it is 111,
\* which flips the phase when both durations are 100.
C5_ElapsedIsModularDifference ==
    [][op' = "update"
         => /\ elapsed' = (arg' - last_toggle_time_ms_) % Modulus
            /\ arg' >= last_toggle_time_ms_
                 => elapsed' = arg' - last_toggle_time_ms_
            /\ arg' < last_toggle_time_ms_
                 => elapsed' = (UINT32_MAX - last_toggle_time_ms_) + arg' + 1
            /\ (last_toggle_time_ms_ = UINT32_MAX - 40 /\ arg' = 70)
                 => /\ elapsed' = 111
                    /\ (on_duration_ms_ = 100 /\ off_duration_ms_ = 100)
                         => led_on_' = ~led_on_]_vars

\* The wraparound sample of the 100/100 controller: 111 elapsed at time 70.
C5_Witness ==
    /\ op = "update"
    /\ on_duration_ms_ = 100
    /\ off_duration_ms_ = 100
    /\ arg = 70
    /\ elapsed = 111
    /\ led_on_
    /\ call_log = <<"update", "update", "update">>

\* C6: reset leaves the phase inactive and the toggle time 0 and makes, in the
\* same call, exactly one output.set call, with the argument false.
C6_ResetPostcondition ==
    [][op' = "reset"
         => /\ led_on_' = FALSE
            /\ last_toggle_time_ms_' = 0
            /\ sink_log' = Append(sink_log, FALSE)
            /\ state_' = FALSE]_vars

\* A reset of a controller that was active with a non-zero toggle time.
C6_Witness ==
    /\ op = "reset"
    /\ call_log = <<"update", "reset">>
    /\ sink_log = <<TRUE, FALSE>>
    /\ arg > 0

\* C7 as stated: an update with the same current_time as the update before it
\* (only getters in between) changes neither the phase nor the toggle time,
\* for any durations.
C7_Original ==
    [][(call_log # <<>> /\ Last(call_log) = "update" /\ op' = "update" /\ arg' = arg)
         => (led_on_' = led_on_ /\ last_toggle_time_ms_' = last_toggle_time_ms_)]_vars

\* C7 amended: the same, when the duration of the phase the controller is in
\* after the first call is at least 1; when it is 0 the repeated call flips.
C7_IdempotentWhenPhaseDurationNonZero ==
    [][(call_log # <<>> /\ Last(call_log) = "update" /\ op' = "update" /\ arg' = arg)
         => IF DurationBefore >= 1
            THEN led_on_' = led_on_ /\ last_toggle_time_ms_' = last_toggle_time_ms_
            ELSE led_on_' = ~led_on_]_vars

\* A repeated sample right after the update that flipped the phase to active.
C7_Witness ==
    /\ Len(call_log) >= 2
    /\ call_log[Len(call_log)] = "update"
    /\ call_log[Len(call_log) - 1] = "update"
    /\ op = "update"
    /\ elapsed = 0
    /\ arg > 0
    /\ last_toggle_time_ms_ = arg
    /\ led_on_
    /\ on_duration_ms_ >= 1
    /\ sink_log[Len(sink_log) - 1] = TRUE

\* C8: with both durations 0 every update flips the phase, whatever the
\* current_time; three updates of a fresh controller drive the pin with
\* active, inactive, active.
C8_ZeroDurationsToggleEveryCall ==
    [][(on_duration_ms_ = 0 /\ off_duration_ms_ = 0 /\ op' = "update")
         => /\ led_on_' = ~led_on_
            /\ call_log' = <<"update", "update", "update">>
                 => sink_log' = <<TRUE, FALSE, TRUE>>]_vars

\* Three updates of a fresh 0/0 controller, the last at an earlier time than
\* the toggle before it.
C8_Witness ==
    /\ on_duration_ms_ = 0
    /\ off_duration_ms_ = 0
    /\ call_log = <<"update", "update", "update">>
    /\ op = "update"
    /\ arg < UINT32_MAX - 40
    /\ elapsed > UINT32_MAX - 40

\* C9: construction leaves the phase inactive, the toggle time 0 and the pin
\* uncalled, and the getters of the fresh controller return the constructor's
\* arguments, false and 0.
C9_ConstructedState ==
    /\ op = "construct"
         => /\ led_on_ = FALSE
            /\ last_toggle_time_ms_ = 0
            /\ sink_log = <<>>
            /\ on_duration_ms_ = ctor_args[1]
            /\ off_duration_ms_ = ctor_args[2]
    /\ call_log = <<>>
         => /\ sink_log = <<>>
            /\ op = "get_on_duration" => retval = <<ctor_args[1]>>
            /\ op = "get_off_duration" => retval = <<ctor_args[2]>>
            /\ op = "is_on" => retval = <<FALSE>>
            /\ op = "get_last_toggle_time" => retval = <<0>>

\* get_off_duration of a fresh controller built with different durations.
C9_Witness ==
    /\ call_log = <<>>
    /\ op = "get_off_duration"
    /\ ctor_args = <<1, 100>>
    /\ retval = <<100>>

\* C10 as stated: every operation other than update (reset and the four
\* getters) leaves the phase as it was before the call.
C10_Original ==
    [][op' # "update" => led_on_' = led_on_]_vars

\* C10 amended: the four getters leave the phase as it was; besides update,
\* reset also changes it, always to inactive.
C10_PhaseChangesOnlyInUpdateAndReset ==
    [][/\ op' \notin {"update", "reset"} => led_on_' = led_on_
       /\ op' = "reset" => led_on_' = FALSE]_vars

\* A reset that found the controller active.
C10_Witness ==
    /\ op = "reset"
    /\ led_on_ = FALSE
    /\ Len(sink_log) >= 2
    /\ sink_log[Len(sink_log) - 1] = TRUE
    /\ Len(call_log) >= 3

\* The sample times passed to update so far.
SamplesSoFar == {time_log[i] : i \in 1..Len(time_log)}

\* C11: the last toggle time is 0 or a sample time passed to an earlier (or
\* the latest) update call since construction, never a value computed from it.
C11_ToggleTimeIsZeroOrASample ==
    last_toggle_time_ms_ = 0 \/ last_toggle_time_ms_ \in SamplesSoFar

\* The toggle time is the non-zero sample of an update before the latest one.
C11_Witness ==
    /\ Len(time_log) >= 3
    /\ op = "update"
    /\ last_toggle_time_ms_ # 0
    /\ last_toggle_time_ms_ # arg
    /\ last_toggle_time_ms_ = time_log[1]
    /\ time_log[2] # time_log[1]

\* C12: on a fresh controller with both durations at least 1, the samples 0,
\* off-1, off, off+on-1, off+on drive the pin with inactive, inactive,
\* active, active, inactive.
C12_BoundaryScenario ==
    (/\ on_duration_ms_ >= 1
     /\ off_duration_ms_ >= 1
     /\ time_log = BoundarySamples(on_duration_ms_, off_duration_ms_))
        => sink_log = <<FALSE, FALSE, TRUE, TRUE, FALSE>>

\* The scenario run to its end with durations 100/100: samples 0, 99, 100, 199, 200.
C12_Witness ==
    /\ on_duration_ms_ = 100
    /\ off_duration_ms_ = 100
    /\ time_log = <<0, 99, 100, 199, 200>>
    /\ script = <<>>
    /\ ~led_on_

\* s is a non-empty initial part of t.
IsPrefix(s, t) ==
    /\ Len(s) >= 1
    /\ Len(s) <= Len(t)
    /\ \A i \in 1..Len(s) : s[i] = t[i]

\* C13: a fresh controller with both durations at least 1 that is sampled
\* exactly when the duration of its current phase has gone by flips on every
\* update: the pin receives active, inactive, active, ..., every toggle is at
\* the sample, and the phase that ended lasted exactly its duration.
C13_OnTimeSamplingAlternates ==
    (/\ on_duration_ms_ >= 1
     /\ off_duration_ms_ >= 1
     /\ IsPrefix(time_log, OnTimeSamples(on_duration_ms_, off_duration_ms_)))
        => /\ sink_log = [k \in 1..Len(time_log) |-> k % 2 = 1]
           /\ last_toggle_time_ms_ = Last(time_log)
           /\ elapsed = IF led_on_ THEN off_duration_ms_ ELSE on_duration_ms_

\* Two full cycles of a 100/1 controller sampled on time.
C13_Witness ==
    /\ on_duration_ms_ = 100
    /\ off_duration_ms_ = 1
    /\ time_log = <<1, 101, 102, 202>>
    /\ sink_log = <<TRUE, FALSE, TRUE, FALSE>>

\* The longer of the two durations.
MaxDuration ==
    IF on_duration_ms_ >= off_duration_ms_ THEN on_duration_ms_ ELSE off_duration_ms_

\* C14 as stated: whatever the durations and the sampling interval, a loop
\* that keeps polling with advancing time enters both phases again and again.
C14_Original ==
    ([]<>led_on_) /\ ([]<>~led_on_)

\* C14 amended: both phases are entered again and again when the sampling
\* interval is at least 1 and the longer duration plus the interval is at
\* most 2^w, so that no sample can jump over the part of the counter's range
\* in which elapsed >= duration.
C14_CyclesForeverWhenIntervalFits ==
    (step >= 1 /\ MaxDuration + step <= Modulus)
        => (([]<>led_on_) /\ ([]<>~led_on_))

\* An active 100/100 controller polled every 50 units after the timer wrapped.
C14_Witness ==
    /\ step = UPDATE_INTERVAL_MS
    /\ on_duration_ms_ = 100
    /\ off_duration_ms_ = 100
    /\ op = "update"
    /\ led_on_
    /\ arg < last_toggle_time_ms_

\* What a sequence of update and reset calls does to a controller, written
\* out from the calls alone: the phase, the toggle time and the values passed
\* to the pin.  times holds the sample times of the update calls, in order.
RefFresh == [on |-> FALSE, last |-> 0, out |-> <<>>]

RefUpdate(st, t, on_ms, off_ms) ==
    LET flip == ((t - st.last) % Modulus) >= (IF st.on THEN on_ms ELSE off_ms)
        on == IF flip THEN ~st.on ELSE st.on
    IN  [on |-> on, last |-> IF flip THEN t ELSE st.last, out |-> Append(st.out, on)]

RefReset(st) == [on |-> FALSE, last |-> 0, out |-> Append(st.out, FALSE)]

RECURSIVE Replay(_, _, _, _, _)
Replay(st, calls, times, on_ms, off_ms) ==
    IF calls = <<>> THEN st
    ELSE IF Head(calls) = "update"
         THEN Replay(RefUpdate(st, Head(times), on_ms, off_ms),
                     Tail(calls), Tail(times), on_ms, off_ms)
         ELSE Replay(RefReset(st), Tail(calls), times, on_ms, off_ms)

\* The position of the last reset in the record of calls (0 when there is none).
LastReset ==
    IF \E i \in 1..Len(call_log) : call_log[i] = "reset"
    THEN CHOOSE i \in 1..Len(call_log) :
            /\ call_log[i] = "reset"
            /\ \A j \in (i + 1)..Len(call_log) : call_log[j] = "update"
    ELSE 0

\* The last n elements of s.
LastN(s, n) == SubSeq(s, Len(s) - n + 1, Len(s))

\* C15: right after reset the controller holds the state of a freshly
\* constructed controller with the same durations, and the updates that
\* follow a reset give the phase, the toggle time and the pin values that
\* the same updates give on a fresh controller.
C15_ResetEqualsFreshStart ==
    LastReset > 0 =>
        LET n == Len(call_log) - LastReset
            fresh == Replay(RefFresh, LastN(call_log, n), LastN(time_log, n),
                            ctor_args[1], ctor_args[2])
        IN  /\ op = "reset" => (led_on_ = FALSE /\ last_toggle_time_ms_ = 0)
            /\ on_duration_ms_ = ctor_args[1]
            /\ off_duration_ms_ = ctor_args[2]
            /\ led_on_ = fresh.on
            /\ last_toggle_time_ms_ = fresh.last
            /\ LastN(sink_log, n) = fresh.out

\* update(100) turned a 100/100 controller on at 100; after reset the samples
\* 1 and 100 give inactive, active, as they do on a fresh controller.
C15_Witness ==
    /\ ctor_args = <<100, 100>>
    /\ call_log = <<"update", "reset", "update", "update">>
    /\ time_log = <<100, 1, 100>>
    /\ sink_log = <<TRUE, FALSE, FALSE, TRUE>>

\* C17: the controller's state and the sequence of values its pin received
\* are determined by the constructor arguments and the sequence of update and
\* reset calls alone (not by the pin's earlier state, the getters called in
\* between, or anything else), so two controllers given the same calls agree
\* after every call.
C17_Deterministic ==
    LET r == Replay(RefFresh, call_log, time_log, ctor_args[1], ctor_args[2])
    IN  /\ led_on_ = r.on
        /\ last_toggle_time_ms_ = r.last
        /\ sink_log = r.out
        /\ on_duration_ms_ = ctor_args[1]
        /\ off_duration_ms_ = ctor_args[2]

\* A 0/0 controller given a sample earlier than the one before it, a reset
\* and a getter call: the recorded calls still fix the state and the pin values.
C17_Witness ==
    /\ ctor_args = <<0, 0>>
    /\ call_log = <<"update", "update", "reset", "update">>
    /\ time_log = <<100, 1, 0>>
    /\ op = "is_on"
    /\ sink_log = <<TRUE, FALSE, FALSE, TRUE>>

GetterNames == {"get_on_duration", "get_off_duration", "is_on", "get_last_toggle_time"}

\* C16: a getter call leaves the phase, the toggle time and both durations
\* as they were and makes no output.set call; whenever one of those four
\* members changes, the call was update or reset.
C16_GettersArePure ==
    [][/\ op' \in GetterNames
            => /\ UNCHANGED <<led_on_, last_toggle_time_ms_,
                              on_duration_ms_, off_duration_ms_>>
               /\ UNCHANGED <<sink_log, state_, call_log>>
       /\ (<<led_on_, last_toggle_time_ms_, on_duration_ms_, off_duration_ms_>>'
              # <<led_on_, last_toggle_time_ms_, on_duration_ms_, off_duration_ms_>>)
            => op' \in {"update", "reset"}]_vars

\* get_last_toggle_time on an active controller that toggled at a non-zero time.
C16_Witness ==
    /\ op = "get_last_toggle_time"
    /\ led_on_
    /\ last_toggle_time_ms_ # 0
    /\ retval = <<last_toggle_time_ms_>>
    /\ Len(sink_log) = 3

\* The values of the counter type.
Counter == 0..UINT32_MAX

\* C18: no call is rejected and none leaves an ill-formed state: in every
\* reachable state reset and update (for every sample time) can be carried
\* out, zero durations included; every member stays a value of its type; and
\* every update or reset carried out so far made its call to the pin.
C18_NoFallibleOperation ==
    /\ on_duration_ms_ \in Counter
    /\ off_duration_ms_ \in Counter
    /\ last_toggle_time_ms_ \in Counter
    /\ elapsed \in Counter
    /\ led_on_ \in BOOLEAN
    /\ state_ \in BOOLEAN
    /\ Len(sink_log) = Len(call_log)
    /\ \A i \in 1..Len(sink_log) : sink_log[i] \in BOOLEAN
    /\ Len(call_log) < MaxCalls
         => /\ ENABLED (reset /\ UNCHANGED caller)
            /\ \A t \in Times : ENABLED (update(t) /\ UNCHANGED caller)
    /\ Len(call_log) <= 1
         => \A t \in Counter :
               /\ ENABLED (update(t) /\ UNCHANGED caller)
               /\ Elapsed(t, last_toggle_time_ms_) \in Counter

\* A 0/0 controller after an update whose sample was below the toggle time.
C18_Witness ==
    /\ on_duration_ms_ = 0
    /\ off_duration_ms_ = 0
    /\ op = "update"
    /\ Len(call_log) = 2
    /\ arg = 1
    /\ elapsed = 2
    /\ ~led_on_

\* C19: the first update after construction or after reset measures from 0:
\* it leaves the controller active exactly when its sample time is at least
\* the off duration; update(0) with a non-zero off duration leaves it
\* inactive, update(MAX - 150) with off = 100 leaves it active.
C19_FirstUpdateMeasuresFromZero ==
    [][((call_log = <<>> \/ Last(call_log) = "reset") /\ op' = "update")
         => /\ led_on_' <=> (arg' >= off_duration_ms_)
            /\ elapsed' = arg'
            /\ (arg' = 0 /\ off_duration_ms_ >= 1) => ~led_on_'
            /\ (arg' = UINT32_MAX - 150 /\ off_duration_ms_ = 100) => led_on_']_vars

\* The first update after a reset, at MAX - 150 with off = 100, turned the
\* controller on at once.
C19_Witness ==
    /\ call_log = <<"update", "reset", "update">>
    /\ sink_log = <<TRUE, FALSE, TRUE>>
    /\ off_duration_ms_ = 100
    /\ arg = UINT32_MAX - 150
    /\ led_on_

\* C20: as long as no sample came 2^w or more after the last toggle, the
\* controller fed the wrapped clock has, after every call, the phase of the
\* reference controller on the unwrapped clock, has passed that phase to the
\* pin, and holds the reference's toggle time reduced modulo 2^w.
C20_WraparoundTransparent ==
    ideal_ok =>
        /\ led_on_ = ideal_on
        /\ call_log # <<>> => (state_ = ideal_on /\ Last(sink_log) = ideal_on)
        /\ last_toggle_time_ms_ = ideal_last % Modulus

\* The controller toggled, in step with the reference, at a sample taken
\* after the clock had passed 2^w, measured from a toggle before the wrap.
C20_Witness ==
    /\ ideal_ok
    /\ on_duration_ms_ = 100
    /\ off_duration_ms_ = 100
    /\ clock > Modulus
    /\ ideal_last = clock
    /\ elapsed > arg
    /\ led_on_

\* C21: an update whose elapsed time, (current_time - last toggle time) mod
\* 2^w, is below the duration of the current phase leaves the phase, the toggle
\* time and both durations unchanged, and makes exactly one output.set call,
\* with the unchanged phase.
C21_NoFlipUpdateOnlyWritesPin ==
    [][(op' = "update" /\ (arg' - last_toggle_time_ms_) % Modulus < DurationBefore)
         => /\ led_on_' = led_on_
            /\ last_toggle_time_ms_' = last_toggle_time_ms_
            /\ on_duration_ms_' = on_duration_ms_
            /\ off_duration_ms_' = off_duration_ms_
            /\ sink_log' = Append(sink_log, led_on_)
            /\ state_' = led_on_]_vars

\* An update in the middle of an on phase: time has gone by since the toggle,
\* less than the on duration, and the pin was written with the active phase.
C21_Witness ==
    /\ op = "update"
    /\ led_on_
    /\ elapsed > 0
    /\ elapsed < on_duration_ms_
    /\ last_toggle_time_ms_ # arg
    /\ Len(sink_log) >= 2
    /\ Last(sink_log) = TRUE

\* The latest call of the caller was an update that flipped the phase: the
\* pin received a value different from the one before (the constructed phase
\* when it is the first call).
LastCallFlipped ==
    /\ call_log # <<>>
    /\ Last(call_log) = "update"
    /\ Last(sink_log) # (IF Len(sink_log) = 1 THEN FALSE
                         ELSE sink_log[Len(sink_log) - 1])

\* C22: an update that flips the phase sets the toggle time to its own
\* current_time, and the update after a flipping update at sample t flips
\* again exactly when (current_time - t) mod 2^w has reached the new phase's
\* duration: the new phase is timed from the sample that detected the flip.
C22_FlipRecordsSampleTime ==
    [][/\ (op' = "update" /\ led_on_' # led_on_) => last_toggle_time_ms_' = arg'
       /\ (LastCallFlipped /\ op' = "update")
            => ((led_on_' # led_on_) <=> ((arg' - arg) % Modulus >= DurationBefore))]_vars

\* The off phase of 100 was ended late, at sample 199; at sample 200, where a
\* schedule kept from 0 would end the on phase of 100, the phase is still on.
C22_Witness ==
    /\ on_duration_ms_ = 100
    /\ off_duration_ms_ = 100
    /\ call_log = <<"update", "update">>
    /\ sink_log = <<TRUE, TRUE>>
    /\ last_toggle_time_ms_ = 199
    /\ arg = 200
    /\ elapsed = 1
    /\ led_on_

\* C23: the durations are fixed at construction: in every state reached by
\* any sequence of update, reset and getter calls the two duration members
\* hold the constructor arguments, and get_on_duration() and
\* get_off_duration() return them.
C23_DurationsFixedAtConstruction ==
    /\ on_duration_ms_ = ctor_args[1]
    /\ off_duration_ms_ = ctor_args[2]
    /\ op = "get_on_duration" => retval = <<ctor_args[1]>>
    /\ op = "get_off_duration" => retval = <<ctor_args[2]>>

\* get_off_duration() called after updates and a reset that changed the
\* phase and the toggle time, on a controller with two different durations.
C23_Witness ==
    /\ op = "get_off_duration"
    /\ retval = <<1>>
    /\ ctor_args = <<100, 1>>
    /\ call_log = <<"update", "reset", "update">>
    /\ led_on_
    /\ last_toggle_time_ms_ > 0

\* The sample time passed by the i-th call of the record, an update.
SampleOfCall(i) ==
    time_log[Cardinality({k \in 1..i : call_log[k] = "update"})]

\* The i-th call of the record was an update that flipped the phase: the pin
\* received a value different from the one before it.
FlippedAt(i) ==
    /\ call_log[i] = "update"
    /\ sink_log[i] # (IF i = 1 THEN FALSE ELSE sink_log[i - 1])

\* C24: for two phase flips made by updates at samples t1 and t2, with no
\* reset and no other flip in between, (t2 - t1) mod 2^w is at least the
\* configured duration of the phase that lasted between them.
C24_MinimumPhaseLength ==
    \A i \in 1..Len(call_log) : \A j \in (i + 1)..Len(call_log) :
        (/\ FlippedAt(i)
         /\ FlippedAt(j)
         /\ \A k \in (i + 1)..(j - 1) : call_log[k] = "update" /\ ~FlippedAt(k))
        => (SampleOfCall(j) - SampleOfCall(i)) % Modulus
             >= (IF sink_log[i] THEN on_duration_ms_ ELSE off_duration_ms_)

\* An on phase of 100 between two flips with a non-flipping update in
\* between, the second flip at a sample below the first (the counter wrapped).
C24_Witness ==
    /\ on_duration_ms_ = 100
    /\ call_log = <<"update", "update", "update">>
    /\ sink_log = <<TRUE, TRUE, FALSE>>
    /\ time_log[3] < time_log[1]
    /\ (time_log[3] - time_log[1]) % Modulus >= 100

\* C25 as stated: when samples are at most d apart and the current phase's
\* duration plus d fits the counter, an update flips exactly when its elapsed
\* time has reached the duration, the elapsed time at the flip is below
\* duration + d, and with d = 1 it is the duration.
C25_Original ==
    [][(op' = "update" /\ DurationBefore + step <= UINT32_MAX)
         => LET e == (arg' - last_toggle_time_ms_) % Modulus
                flip == led_on_' # led_on_
            IN  /\ flip <=> (e >= DurationBefore)
                /\ flip => e < DurationBefore + step
                /\ (flip /\ step = 1) => e = DurationBefore]_vars

\* C25: when samples are at most d apart, for a phase that began at a flip
\* seen at sample t1, whose duration is at least 1 and plus d fits the
\* counter: an update at sample t flips exactly when (t - t1) mod 2^w has
\* reached the duration, then (t - t1) mod 2^w is below duration + d, and
\* with d = 1 it is exactly the duration.
C25_BoundedLatenessOfPhasesBegunAtAFlip ==
    [][(/\ op' = "update"
        /\ time_log # <<>>
        /\ DurationBefore >= 1
        /\ DurationBefore + step <= UINT32_MAX)
         => LET e == (arg' - time_log[1]) % Modulus
                flip == led_on_' # led_on_
            IN  /\ flip <=> (e >= DurationBefore)
                /\ flip => e < DurationBefore + step
                /\ (flip /\ step = 1) => e = DurationBefore]_vars

\* Sampling every tick: an on phase of 100 that began before the counter
\* wrapped has just been ended, exactly 100 ticks after it began.
C25_Witness ==
    /\ step = 1
    /\ on_duration_ms_ = 100
    /\ op = "update"
    /\ ~led_on_
    /\ time_log = <<arg>>
    /\ elapsed = 100
    /\ arg < 100

\* C26: with exactly one zero duration the zero-length phase lasts one update
\* call.  If on_duration = 0 and off_duration >= 1 the pin never receives
\* active from two calls in a row; if off_duration = 0 and on_duration >= 1
\* the pin never receives inactive from two updates in a row.
C26_ZeroLengthPhaseLastsOneUpdate ==
    \A i \in 1..(Len(call_log) - 1) :
        /\ (on_duration_ms_ = 0 /\ off_duration_ms_ >= 1)
             => ~(sink_log[i] /\ sink_log[i + 1])
        /\ (off_duration_ms_ = 0 /\ on_duration_ms_ >= 1
              /\ call_log[i] = "update" /\ call_log[i + 1] = "update")
             => (sink_log[i] \/ sink_log[i + 1])

\* on_duration is 0: an update activated, and the next update, with a sample
\* one tick before the activating one, deactivated.
C26_Witness ==
    /\ on_duration_ms_ = 0
    /\ off_duration_ms_ >= 1
    /\ call_log = <<"update", "update">>
    /\ sink_log = <<TRUE, FALSE>>
    /\ elapsed = UINT32_MAX

\* C27: a sample that is k >= 1 below the toggle time is treated as a counter
\* wrap: update computes elapsed = 2^w - k and flips exactly when the current
\* phase's duration is at most 2^w - k.  With on = 100 and off = 1 the calls
\* update(1), update(0) leave the controller inactive.
C27_BackwardSampleIsAWrap ==
    [][/\ (op' = "update" /\ arg' < last_toggle_time_ms_)
            => LET k == last_toggle_time_ms_ - arg'
               IN  /\ elapsed' = Modulus - k
                   /\ (led_on_' # led_on_) <=> (DurationBefore <= Modulus - k)
       /\ (/\ ctor_args' = <<100, 1>>
           /\ call_log' = <<"update", "update">>
           /\ time_log' = <<1, 0>>)
            => (~led_on_' /\ sink_log' = <<TRUE, FALSE>>)]_vars

\* The two calls update(1), update(0) on a controller with on = 100, off = 1:
\* the second computed elapsed 2^w - 1 and ended the on phase.
C27_Witness ==
    /\ ctor_args = <<100, 1>>
    /\ call_log = <<"update", "update">>
    /\ time_log = <<1, 0>>
    /\ elapsed = Modulus - 1
    /\ last_toggle_time_ms_ = 0
    /\ ~led_on_

\* C28: reset is idempotent on the controller's state: a reset whose previous
\* state-changing call was a reset leaves the phase, the toggle time and the
\* durations as the first reset left them (inactive, 0, the configured
\* durations), and still makes exactly one output.set(false) call.
C28_ResetIdempotent ==
    [][(call_log # <<>> /\ Last(call_log) = "reset" /\ op' = "reset")
         => /\ led_on_' = led_on_ /\ led_on_' = FALSE
            /\ last_toggle_time_ms_' = last_toggle_time_ms_ /\ last_toggle_time_ms_' = 0
            /\ on_duration_ms_' = on_duration_ms_
            /\ off_duration_ms_' = off_duration_ms_
            /\ sink_log' = Append(sink_log, FALSE)
            /\ state_' = FALSE]_vars

\* An update turned the pin on, a reset turned it off, and a second reset
\* wrote inactive once more.
C28_Witness ==
    /\ op = "reset"
    /\ call_log = <<"update", "reset", "reset">>
    /\ sink_log = <<TRUE, FALSE, FALSE>>
    /\ ~led_on_
    /\ last_toggle_time_ms_ = 0
    /\ ~state_

\* C29: in the wraparound branch of update (current_time below the toggle
\* time) no operation of (MAX - last toggle time) + current_time + 1 leaves
\* 0..MAX, so nothing is lost to the w-bit type, and the elapsed time is the
\* value of the last operation and lies in 1..MAX.
C29_WrapBranchDoesNotOverflow ==
    [][(op' = "update" /\ arg' < last_toggle_time_ms_)
         => LET steps == WrapSteps(arg', last_toggle_time_ms_)
            IN  /\ \A i \in 1..Len(steps) : steps[i] \in 0..UINT32_MAX
                /\ steps[1] = UINT32_MAX - last_toggle_time_ms_
                /\ steps[2] = steps[1] + arg'
                /\ steps[3] = steps[2] + 1
                /\ elapsed' = steps[3]
                /\ elapsed' \in 1..UINT32_MAX]_vars

\* The largest case: the toggle time was MAX and the sample is MAX - 1, so
\* the operations give 0, MAX - 1 and MAX.
C29_Witness ==
    /\ op = "update"
    /\ arg = UINT32_MAX - 1
    /\ elapsed = UINT32_MAX
    /\ WrapSteps(arg, UINT32_MAX) = <<0, UINT32_MAX - 1, UINT32_MAX>>

====
